---- MODULE Spec2Model ----
(***************************************************************************)
(* piecut: scan a directory tree, rank the files that pass the age filters *)
(* by size, and run the interactive deletion session of src/main.rs.       *)
(*                                                                         *)
(* The model follows main(): get_lame_files() walks the tree one entry per *)
(* step, then the while loop alternates create_current_data() with         *)
(* process_input().  The file system, the clock, the operator and the      *)
(* outcome of the confirmation prompt are the environment.                 *)
(***************************************************************************)
EXTENDS Integers, Sequences, FiniteSets, TLC

(* ---- program constants (src/main.rs:6-9) ---- *)
SECONDS_PER_DAY == 86400
NUM_FILES_SHOWN == 5
SIZE_CONVERT_VALUE == 1024
SIZE_CONVERT_SUFFIXES == <<"Byte", "KiB", "MiB", "GiB", "TiB">>

(* ---- bounds of the model ---- *)
MaxEntries == 6      \* items the directory walk yields
MaxSize    == 2      \* metadata.len() of an entry is in 0..MaxSize
MaxDays    == 1      \* each --min-* option is in 0..MaxDays
MaxObserved == 3     \* items the walk yields when its entries are recorded

(* ---- environment values ---- *)
\* SystemTime::now() of line 83, in seconds; late enough for every age.
Now == (MaxDays + 2) * SECONDS_PER_DAY
\* Timestamps an entry can carry: older than every threshold, exactly one
\* day old, and in the future.
Times == {Now - MaxDays * SECONDS_PER_DAY - 1, Now - SECONDS_PER_DAY, Now + 1}
\* A timestamp accessor returns Ok(time) or Err (e.g. no birth time).
NoTime == -1
TimeResults == Times \cup {NoTime}
Sizes == 0..MaxSize
\* Numbers the operator can type: 0, every slot, and one past the page.
Numbers == 0..(NUM_FILES_SHOWN + 1)

VARIABLES
    pc,            \* where main() is
    min_created,   \* arguments of get_lame_files, in seconds
    min_modified,
    min_accessed,
    files,         \* Vec<LameFile>: sequence of [size |-> u64]
    total_size,    \* total_size of get_lame_files, then of main
    skip,          \* pagination offset
    deleted,       \* [bool; NUM_FILES_SHOWN], indexed 0..NUM_FILES_SHOWN-1
    data,          \* Vec<Data> built in the current iteration
    choice,        \* the line read by process_input, trimmed and uppercased
    outcome,       \* what confirm_file_deletion returned in the last command
    diag,          \* the diagnostic the last step printed
    walked,        \* number of items the walk has yielded
    regular_sum,   \* history: sizes of the regular files whose metadata was read
    root_failed,   \* history: the walk's first item (the root) could not be read
    scan_total,    \* history: total_size as returned by get_lame_files
    removed,       \* history: indices of files removed from disk
    observe,       \* whether the walk records the entry it handles
    entry,         \* history: the entry the last step of the walk handled
    bytes,         \* argument of to_readable_size, as base-1024 digits
    readable       \* what to_readable_size returned for it

vars == <<pc, min_created, min_modified, min_accessed, files, total_size,
          skip, deleted, data, choice, outcome, diag, walked, regular_sum,
          root_failed, scan_total, removed, observe, entry, bytes,
          readable>>

scanVars    == <<min_created, min_modified, min_accessed, walked,
                 regular_sum, root_failed, scan_total, observe, entry,
                 bytes, readable>>

(* ---- helpers ---- *)
RECURSIVE SumOver(_, _)
SumOver(s, idx) ==
    IF idx = {} THEN 0
    ELSE LET i == CHOOSE j \in idx : TRUE
         IN  s[i].size + SumOver(s, idx \ {i})

NoneDeleted == [i \in 0..(NUM_FILES_SHOWN - 1) |-> FALSE]
NoChoice == [kind |-> "none", n |-> 0]
NoEntry == [is_file |-> FALSE, created |-> NoTime, modified |-> NoTime,
            accessed |-> NoTime, result |-> "none"]
\* What is recorded of an entry: nothing unless the walk is observed.
Observed(obs, e) == IF obs THEN e ELSE NoEntry

meets_time_condition_NonStrict(now, min_value, actual_value) ==
    IF min_value = 0 THEN TRUE
    ELSE IF now >= actual_value
         THEN now - actual_value >= min_value
         ELSE FALSE

(* ---- to_readable_size, lines 25-30 ----                                 *)
(* A u64 is written in base SIZE_CONVERT_VALUE, least significant digit    *)
(* first: seven digits, the last at most 15.  floor(log_1024(size.max(1))) *)
(* is then the 0-based position of the highest digit that is not 0, and    *)
(* 1024^(base - floored) lies in [lead, lead + 1) for that digit lead.     *)
(* The logarithm is taken exactly; the f64 rounding of line 26 is not      *)
(* modelled.                                                               *)
U64Digits == 7
U64TopDigit == 15
NotFormatted == [status |-> "none", suffix |-> "", lead |-> 0]

RECURSIVE FloorLog(_, _)
FloorLog(digits, i) ==
    IF i <= 1 THEN 0
    ELSE IF digits[i] # 0 THEN i - 1
    ELSE FloorLog(digits, i - 1)

to_readable_size(size) ==
    LET floored == FloorLog(size, Len(size))
        lead    == IF size[floored + 1] = 0 THEN 1 ELSE size[floored + 1]
    IN  IF floored + 1 \in DOMAIN SIZE_CONVERT_SUFFIXES
        THEN [status |-> "ok", suffix |-> SIZE_CONVERT_SUFFIXES[floored + 1],
              lead |-> lead]
        ELSE \* the index is past the table: the process panics
             [status |-> "panicked", suffix |-> "", lead |-> lead]

(* ---- meets_time_condition, lines 65-76 ---- *)
meets_time_condition(now, min_value, actual_value) ==
    IF min_value = 0 THEN TRUE
    ELSE IF now >= actual_value          \* duration_since is Ok
         THEN now - actual_value > min_value
         ELSE FALSE

(* ---- the condition of lines 92-95, with its short circuits ----          *)
(* The `?` on a timestamp is evaluated only when every earlier conjunct    *)
(* was true.  Result: "error" (the function returns Err), "push" or "skip".*)
Classify(is_file, now, minc, minm, mina, c, m, a) ==
    IF ~is_file THEN "skip"
    ELSE IF c = NoTime THEN "error"
    ELSE IF ~meets_time_condition(now, minc, c) THEN "skip"
    ELSE IF m = NoTime THEN "error"
    ELSE IF ~meets_time_condition(now, minm, m) THEN "skip"
    ELSE IF a = NoTime THEN "error"
    ELSE IF ~meets_time_condition(now, mina, a) THEN "skip"
    ELSE "push"

SortBySize_None(s) == s

(* ---- files.sort_by(|a, b| b.size.cmp(&a.size)), line 108 (stable) ---- *)
RECURSIVE InsertBySize(_, _)
InsertBySize(sorted, f) ==
    IF sorted = <<>> THEN <<f>>
    ELSE IF sorted[Len(sorted)].size >= f.size THEN Append(sorted, f)
    ELSE Append(InsertBySize(SubSeq(sorted, 1, Len(sorted) - 1), f),
                sorted[Len(sorted)])

RECURSIVE SortBySize(_)
SortBySize(s) ==
    IF s = <<>> THEN <<>>
    ELSE InsertBySize(SortBySize(SubSeq(s, 1, Len(s) - 1)), s[Len(s)])

(* ---- Init: main() has parsed its arguments and enters get_lame_files ---- *)
Init ==
    /\ pc = "scan"
    /\ \E dc \in 0..MaxDays : min_created  = dc * SECONDS_PER_DAY
    /\ \E dm \in 0..MaxDays : min_modified = dm * SECONDS_PER_DAY
    /\ \E da \in 0..MaxDays : min_accessed = da * SECONDS_PER_DAY
    /\ files = <<>>
    /\ total_size = 0
    /\ skip = 0
    /\ deleted = NoneDeleted
    /\ data = <<>>
    /\ choice = NoChoice
    /\ outcome = "none"
    /\ diag = "none"
    /\ walked = 0
    /\ regular_sum = 0
    /\ root_failed = FALSE
    /\ scan_total = 0
    /\ removed = {}
    /\ observe = FALSE
    /\ entry = NoEntry
    /\ bytes = <<>>
    /\ readable = NotFormatted

\* The walk can yield another item: fewer than MaxEntries so far, and the
\* root was not an error (WalkDir yields nothing after a failed root).
CanYield ==
    /\ pc = "scan"
    /\ walked < (IF observe THEN MaxObserved ELSE MaxEntries)
    /\ ~root_failed

(* ---- line 103: the walk yields Err; it is printed and skipped ---- *)
Walk_Err ==
    /\ CanYield
    /\ walked' = walked + 1
    /\ root_failed' = (walked = 0)
    /\ diag' = "Skipping"
    /\ entry' = NoEntry
    /\ UNCHANGED <<observe, bytes, readable>>
    /\ UNCHANGED <<pc, min_created, min_modified, min_accessed, files,
                   total_size, skip, deleted, data, choice, outcome,
                   regular_sum, scan_total, removed>>

(* ---- line 90: file.metadata()? fails; get_lame_files returns Err ---- *)
Walk_MetadataErr ==
    /\ CanYield
    /\ walked' = walked + 1
    /\ pc' = "scan_failed"
    /\ root_failed' = (walked = 0)
    /\ entry' = NoEntry
    /\ UNCHANGED <<observe, bytes, readable>>
    /\ UNCHANGED <<min_created, min_modified, min_accessed, files,
                   total_size, skip, deleted, data, choice, outcome, diag,
                   regular_sum, scan_total, removed>>

(* ---- lines 90-101 for a directory or another non-regular entry ---- *)
Walk_NonFile ==
    /\ CanYield
    /\ \E size \in Sizes :
          /\ Classify(FALSE, Now, min_created, min_modified, min_accessed,
                      NoTime, NoTime, NoTime) = "skip"
          /\ total_size' = total_size + size
    /\ walked' = walked + 1
    /\ entry' = Observed(observe, [NoEntry EXCEPT !.result = "skip"])
    /\ UNCHANGED <<observe, bytes, readable>>
    /\ UNCHANGED <<pc, min_created, min_modified, min_accessed, files,
                   skip, deleted, data, choice, outcome, diag,
                   regular_sum, root_failed, scan_total, removed>>

(* ---- lines 90-101 for a regular file ---- *)
Walk_File ==
    /\ CanYield
    /\ \E size \in Sizes, c \in TimeResults, m \in TimeResults,
          a \in TimeResults :
          LET r == Classify(TRUE, Now, min_created, min_modified,
                            min_accessed, c, m, a)
          IN  /\ walked' = walked + 1
              /\ regular_sum' = regular_sum + size
              /\ entry' = Observed(observe,
                              [is_file |-> TRUE, created |-> c,
                               modified |-> m, accessed |-> a, result |-> r])
              /\ IF r = "error"
                 THEN /\ pc' = "scan_failed"
                      /\ root_failed' = (walked = 0)
                      /\ UNCHANGED <<files, total_size>>
                 ELSE /\ pc' = pc
                      /\ root_failed' = root_failed
                      /\ files' = IF r = "push"
                                  THEN Append(files, [size |-> size])
                                  ELSE files
                      /\ total_size' = total_size + size
    /\ UNCHANGED <<min_created, min_modified, min_accessed, skip, deleted,
                   data, choice, outcome, diag, scan_total, removed, observe,
                   bytes, readable>>

(* ---- lines 108-110 and 229-239: the walk ends, the session starts ---- *)
Walk_End ==
    /\ pc = "scan"
    /\ walked > 0                      \* the walk always yields the root
    /\ files' = SortBySize(files)
    /\ scan_total' = total_size
    /\ skip' = 0
    /\ deleted' = NoneDeleted
    /\ min_created' = 0 /\ min_modified' = 0 /\ min_accessed' = 0
    /\ walked' = 0                     \* the iterator is dropped
    /\ diag' = "Total size"            \* line 235
    /\ entry' = NoEntry
    /\ pc' = "loop"
    /\ UNCHANGED <<observe, bytes, readable>>
    /\ UNCHANGED <<total_size, data, choice, outcome, regular_sum,
                   root_failed, removed>>

RECURSIVE PageSlices_IgnoreMask(_, _, _, _, _)
PageSlices_IgnoreMask(fs, sk, total, del, i) ==
    IF i >= NUM_FILES_SHOWN \/ sk + i >= Len(fs) THEN <<>>
    ELSE <<[slot |-> i + 1, file |-> sk + i + 1,
            size |-> fs[sk + i + 1].size, total |-> total]>>
         \o PageSlices_IgnoreMask(fs, sk, total, del, i + 1)

RECURSIVE PageSlices_Renumbered(_, _, _, _, _)
PageSlices_Renumbered(fs, sk, total, del, i) ==
    IF i >= NUM_FILES_SHOWN \/ sk + i >= Len(fs) THEN <<>>
    ELSE (IF del[i] THEN <<>>
          ELSE <<[slot |-> Cardinality({j \in 0..i : ~del[j]}),
                  file |-> sk + i + 1,
                  size |-> fs[sk + i + 1].size, total |-> total]>>)
         \o PageSlices_Renumbered(fs, sk, total, del, i + 1)

create_current_data_OtherIsTotal(fs, sk, total, del) ==
    LET top == PageSlices_IgnoreMask(fs, sk, total,
                   [i \in DOMAIN del |-> FALSE], 0)
        kept == SelectSeq(top, LAMBDA d : ~del[d.slot - 1])
    IN  Append(kept, [slot |-> 0, file |-> 0, size |-> total,
                      total |-> total])

(* ---- create_current_data, lines 129-161 ----                            *)
(* A slice keeps its slot number (the label's "(i + 1)", 0 for Other), the *)
(* file its label shows (1-based position in files, 0 for Other), the size *)
(* it stands for and the total it is divided by: value = size/total.       *)
RECURSIVE PageSlices(_, _, _, _, _)
PageSlices(fs, sk, total, del, i) ==
    IF i >= NUM_FILES_SHOWN \/ sk + i >= Len(fs) THEN <<>>
    ELSE (IF del[i] THEN <<>>
          ELSE <<[slot |-> i + 1, file |-> sk + i + 1,
                  size |-> fs[sk + i + 1].size, total |-> total]>>)
         \o PageSlices(fs, sk, total, del, i + 1)

RECURSIVE DataSize(_)
DataSize(slices) ==
    IF slices = <<>> THEN 0 ELSE slices[1].size + DataSize(Tail(slices))

create_current_data(fs, sk, total, del) ==
    LET top        == PageSlices(fs, sk, total, del, 0)
        other_size == total - DataSize(top)
    IN  Append(top, [slot |-> 0, file |-> 0, size |-> other_size,
                     total |-> total])

(* ---- line 243: if total_size <= 0 ---- *)
NothingLeft(total) == total <= 0

(* ---- lines 242-256: one pass of the while loop up to the prompt ---- *)
Main_Iterate ==
    /\ pc = "loop"
    /\ data' = create_current_data(files, skip, total_size, deleted)
    /\ IF NothingLeft(total_size)
       THEN /\ diag' = "No files left"
            /\ pc' = "done"
       ELSE /\ diag' = "Enter a number"   \* lines 247-255
            /\ pc' = "prompt"
    /\ choice' = NoChoice               \* locals of process_input are gone
    /\ outcome' = "none"
    /\ UNCHANGED <<files, total_size, skip, deleted, removed>>
    /\ UNCHANGED scanVars

(* ---- line 256: io::stdout().flush()? fails; main returns Err ---- *)
Main_FlushErr ==
    /\ pc = "loop"
    /\ ~NothingLeft(total_size)
    /\ data' = create_current_data(files, skip, total_size, deleted)
    /\ diag' = "Enter a number"
    /\ choice' = NoChoice
    /\ outcome' = "none"
    /\ pc' = "io_failed"
    /\ UNCHANGED <<files, total_size, skip, deleted, removed>>
    /\ UNCHANGED scanVars

(* ---- line 180: read_line fails (e.g. the line is not UTF-8) ---- *)
Input_ReadErr ==
    /\ pc = "prompt"
    /\ choice' = [kind |-> "unreadable", n |-> 0]
    /\ outcome' = "none"
    /\ diag' = "none"
    /\ data' = <<>>
    /\ pc' = "io_failed"
    /\ UNCHANGED <<files, total_size, skip, deleted, removed>>
    /\ UNCHANGED scanVars

NoNextPage_Strict(sk, len) == sk + NUM_FILES_SHOWN > len

(* ---- line 185: no further page ---- *)
NoNextPage(sk, len) == sk + NUM_FILES_SHOWN >= len

(* ---- lines 184-191: "N" ---- *)
Input_N ==
    /\ pc = "prompt"
    /\ choice' = [kind |-> "N", n |-> 0]
    /\ outcome' = "none"
    /\ data' = <<>>
    /\ IF NoNextPage(skip, Len(files))
       THEN /\ diag' = "No files left"
            /\ pc' = "done"
            /\ UNCHANGED <<skip, deleted>>
       ELSE /\ diag' = "none"
            /\ skip' = skip + NUM_FILES_SHOWN
            /\ deleted' = NoneDeleted
            /\ pc' = "loop"
    /\ UNCHANGED <<files, total_size, removed>>
    /\ UNCHANGED scanVars

(* ---- line 192: "Q" ---- *)
Input_Q ==
    /\ pc = "prompt"
    /\ choice' = [kind |-> "Q", n |-> 0]
    /\ outcome' = "none"
    /\ diag' = "none"
    /\ data' = <<>>
    /\ pc' = "done"
    /\ UNCHANGED <<files, total_size, skip, deleted, removed>>
    /\ UNCHANGED scanVars

(* ---- line 196: the pattern n @ 1..=NUM_FILES_SHOWN ---- *)
InRange(n) == n \in 1..NUM_FILES_SHOWN

FileIndex_NoSkip(sk, index) == index

AlreadyDeleted_Never(del, index) == FALSE

(* ---- line 198: if deleted[index] ---- *)
AlreadyDeleted(del, index) == del[index]

(* ---- line 201: the index of &files[*skip + index] ---- *)
FileIndex(sk, index) == sk + index

AfterConfirm_NoSubtract(done, del, total, index, size) ==
    IF done
    THEN [deleted |-> [del EXCEPT ![index] = TRUE], total_size |-> total]
    ELSE [deleted |-> del, total_size |-> total]

AfterConfirm_IgnoreDone(done, del, total, index, size) ==
    [deleted |-> [del EXCEPT ![index] = TRUE], total_size |-> total - size]

AfterConfirm_ClearOthers(done, del, total, index, size) ==
    IF done
    THEN [deleted |-> [i \in DOMAIN del |-> i = index],
          total_size |-> total - size]
    ELSE [deleted |-> del, total_size |-> total]

AfterConfirm_NoMark(done, del, total, index, size) ==
    IF done
    THEN [deleted |-> del, total_size |-> total - size]
    ELSE [deleted |-> del, total_size |-> total]

(* ---- lines 204-209: Ok(done) ---- *)
AfterConfirm(done, del, total, index, size) ==
    IF done
    THEN [deleted |-> [del EXCEPT ![index] = TRUE], total_size |-> total - size]
    ELSE [deleted |-> del, total_size |-> total]

(* ---- confirm_file_deletion, lines 114-126 ----                          *)
(* "deleted" is Ok(true), "declined" is Ok(false), "failed" is Err (flush, *)
(* read_line or remove_file failed) and "panicked" is the unwrap of line   *)
(* 116 on a path that is not valid Unicode.                                *)
ConfirmResults == {"deleted", "declined", "failed", "panicked"}

(* ---- lines 193-218: a line that parses as usize ---- *)
Input_Number ==
    /\ pc = "prompt"
    /\ \E n \in Numbers :
        /\ choice' = [kind |-> "number", n |-> n]
        /\ data' = <<>>
        /\ IF InRange(n)
           THEN LET index == n - 1 IN
                IF AlreadyDeleted(deleted, index)
                THEN /\ diag' = "Invalid choice"
                     /\ outcome' = "none"
                     /\ pc' = "loop"
                     /\ UNCHANGED <<total_size, deleted, removed>>
                ELSE IF FileIndex(skip, index) >= Len(files)
                THEN \* files[*skip + index] is out of bounds
                     /\ diag' = "none"
                     /\ outcome' = "none"
                     /\ pc' = "panicked"
                     /\ UNCHANGED <<total_size, deleted, removed>>
                ELSE LET file == files[FileIndex(skip, index) + 1] IN
                     \E r \in ConfirmResults :
                        /\ outcome' = r
                        /\ pc' = IF r = "panicked" THEN "panicked" ELSE "loop"
                        /\ diag' = IF r = "failed"
                                   THEN "Couldn't delete file" ELSE "none"
                        /\ LET after == AfterConfirm(r = "deleted", deleted,
                                            total_size, index, file.size)
                           IN  IF r \in {"deleted", "declined"}
                               THEN /\ deleted' = after.deleted
                                    /\ total_size' = after.total_size
                               ELSE UNCHANGED <<deleted, total_size>>
                        /\ removed' = IF r = "deleted"
                                      THEN removed \cup
                                           {FileIndex(skip, index) + 1}
                                      ELSE removed
           ELSE /\ diag' = "Invalid choice"
                /\ outcome' = "none"
                /\ pc' = "loop"
                /\ UNCHANGED <<total_size, deleted, removed>>
    /\ UNCHANGED <<files, skip>>
    /\ UNCHANGED scanVars

(* ---- line 216: a line that does not parse as usize ---- *)
Input_Other ==
    /\ pc = "prompt"
    /\ choice' = [kind |-> "other", n |-> 0]
    /\ outcome' = "none"
    /\ diag' = "Not a valid number"
    /\ data' = <<>>
    /\ pc' = "loop"
    /\ UNCHANGED <<files, total_size, skip, deleted, removed>>
    /\ UNCHANGED scanVars

Next ==
    \/ Walk_Err
    \/ Walk_MetadataErr
    \/ Walk_NonFile
    \/ Walk_File
    \/ Walk_End
    \/ Main_Iterate
    \/ Main_FlushErr
    \/ Input_ReadErr
    \/ Input_N
    \/ Input_Q
    \/ Input_Number
    \/ Input_Other

Spec == Init /\ [][Next]_vars

(* ---- runs in which the terminal works and the operator keeps asking ---- *)
(* ---- for the next page: the loop runs on by itself (weak fairness)  ---- *)
(* ---- and "N" is typed again and again (strong fairness)             ---- *)
NextOperator ==
    \/ Walk_Err
    \/ Walk_MetadataErr
    \/ Walk_NonFile
    \/ Walk_File
    \/ Walk_End
    \/ Main_Iterate
    \/ Input_N
    \/ Input_Q
    \/ Input_Number
    \/ Input_Other

SpecLive ==
    /\ Init
    /\ [][NextOperator]_vars
    /\ WF_vars(Main_Iterate)
    /\ SF_vars(Input_N)

(* ---- the scan alone, with every entry it handles recorded ---- *)
InitObserved ==
    /\ pc = "scan"
    /\ \E dc \in 0..MaxDays : min_created  = dc * SECONDS_PER_DAY
    /\ \E dm \in 0..MaxDays : min_modified = dm * SECONDS_PER_DAY
    /\ \E da \in 0..MaxDays : min_accessed = da * SECONDS_PER_DAY
    /\ files = <<>>
    /\ total_size = 0
    /\ skip = 0
    /\ deleted = NoneDeleted
    /\ data = <<>>
    /\ choice = NoChoice
    /\ outcome = "none"
    /\ diag = "none"
    /\ walked = 0
    /\ regular_sum = 0
    /\ root_failed = FALSE
    /\ scan_total = 0
    /\ removed = {}
    /\ observe = TRUE
    /\ entry = NoEntry
    /\ bytes = <<>>
    /\ readable = NotFormatted

NextScan ==
    \/ Walk_Err
    \/ Walk_MetadataErr
    \/ Walk_NonFile
    \/ Walk_File
    \/ Walk_End

SpecScan == InitObserved /\ [][NextScan]_vars

(* ---- to_readable_size alone, over byte counts of every magnitude ---- *)
ByteCounts ==
    {b \in [1..U64Digits -> {0, 1, U64TopDigit, SIZE_CONVERT_VALUE - 1}] :
        b[U64Digits] <= U64TopDigit}

InitFormat ==
    /\ pc = "format"
    /\ bytes \in ByteCounts
    /\ readable = NotFormatted
    /\ min_created = 0 /\ min_modified = 0 /\ min_accessed = 0
    /\ files = <<>>
    /\ total_size = 0
    /\ skip = 0
    /\ deleted = NoneDeleted
    /\ data = <<>>
    /\ choice = NoChoice
    /\ outcome = "none"
    /\ diag = "none"
    /\ walked = 0
    /\ regular_sum = 0
    /\ root_failed = FALSE
    /\ scan_total = 0
    /\ removed = {}
    /\ observe = FALSE
    /\ entry = NoEntry

Format_Call ==
    /\ pc = "format"
    /\ readable' = to_readable_size(bytes)
    /\ pc' = "formatted"
    /\ UNCHANGED <<min_created, min_modified, min_accessed, files,
                   total_size, skip, deleted, data, choice, outcome, diag,
                   walked, regular_sum, root_failed, scan_total, removed,
                   observe, entry, bytes>>

NextFormat == Format_Call

SpecFormat == InitFormat /\ [][NextFormat]_vars

(***************************************************************************)
(* Properties                                                              *)
(***************************************************************************)
\* The session has started: get_lame_files returned Ok.
InSession == pc \in {"loop", "prompt", "done", "panicked", "io_failed"}
\* The session is Active: the while loop is running.
Active == pc \in {"loop", "prompt"}
\* process_input has just handled the command it read.
Handled(kind) == pc = "prompt" /\ choice'.kind = kind

\* C1: in every session state the live total equals the scan total minus
\* the sizes of all candidates whose deletion succeeded, on every page
\* visited so far.
C1_LiveTotalAccounting ==
    InSession => total_size = scan_total - SumOver(files, removed)

\* C1 witness: deletions succeeded on the first and on the second page.
C1_DeletedOnTwoPages ==
    /\ InSession
    /\ \E i \in removed : i <= NUM_FILES_SHOWN
    /\ \E j \in removed : j > NUM_FILES_SHOWN

\* C2: a number that is not a slot of the current page (0, above the page
\* size, or above the candidates present on the page) gets the
\* invalid-choice diagnostic, never reaches the confirmation prompt, and
\* leaves the session Active with offset, mask and live total unchanged.
C2_InvalidSlotRejected ==
    [][ (/\ Handled("number")
         /\ \/ choice'.n < 1
            \/ choice'.n > NUM_FILES_SHOWN
            \/ skip + choice'.n > Len(files))
        => /\ diag' = "Invalid choice"
           /\ outcome' = "none"
           /\ pc' = "loop"
           /\ skip' = skip /\ deleted' = deleted
           /\ total_size' = total_size ]_vars

\* C3: when the confirmation is declined or fails, offset, mask and live
\* total are unchanged and the session stays Active.
C3_DeclineOrFailureKeepsState ==
    [][ (Handled("number") /\ outcome' \in {"declined", "failed"})
        => /\ skip' = skip /\ deleted' = deleted
           /\ total_size' = total_size
           /\ pc' = "loop" /\ total_size' > 0 ]_vars

\* C3 witness: a confirmation failed after an earlier deletion succeeded,
\* and the page still shows the slot that was marked.
C3_FailedAfterSuccess ==
    /\ pc = "loop" /\ outcome = "failed"
    /\ removed # {}
    /\ \E i \in DOMAIN deleted : deleted[i]

\* C4: a successful deletion of slot n marks exactly mask[n] and subtracts
\* exactly the size of the candidate at index offset + n - 1; the offset
\* and the candidate sequence do not change.
C4_SuccessfulDeleteEffect ==
    [][ (Handled("number") /\ outcome' = "deleted")
        => LET n == choice'.n IN
           /\ ~deleted[n - 1]
           /\ deleted' = [deleted EXCEPT ![n - 1] = TRUE]
           /\ total_size' = total_size - files[skip + n].size
           /\ skip' = skip /\ files' = files ]_vars

\* C4 witness: a deletion succeeded on the second page, for a candidate
\* smaller than the one in the same slot of the first page.
C4_DeletedOnSecondPage ==
    /\ pc = "loop" /\ outcome = "deleted" /\ skip > 0
    /\ files[skip + choice.n].size < files[choice.n].size
    /\ deleted[choice.n - 1]

\* C5: NextPage ends the session when offset + page size >= number of
\* candidates; otherwise it advances the offset by the page size, clears
\* the mask, keeps the live total and stays Active.
C5_NextPage ==
    [][ Handled("N")
        => IF skip + NUM_FILES_SHOWN >= Len(files)
           THEN /\ pc' = "done"
                /\ skip' = skip /\ total_size' = total_size
           ELSE /\ pc' = "loop"
                /\ skip' = skip + NUM_FILES_SHOWN
                /\ deleted' = NoneDeleted
                /\ total_size' = total_size ]_vars

\* C5 witness: NextPage advanced to the second page, and a second NextPage
\* ended the session there.
C5_AdvancedThenDone ==
    pc = "done" /\ choice.kind = "N" /\ skip = NUM_FILES_SHOWN

\* C6: the chart data is never built with a live total of 0, and with a
\* live total of 0 the session never prompts.
C6_BuilderNeverSeesZero ==
    /\ data # <<>> => data[Len(data)].total > 0
    /\ (InSession /\ total_size = 0) => pc # "prompt"

\* C7: the session never prompts when the candidate list is exhausted
\* (empty, or every candidate deleted), whatever the live total.
C7_NoPromptWhenExhausted ==
    pc = "prompt" => \E i \in 1..Len(files) : i \notin removed

\* C8: no operator command ends the session abnormally; a command leaves
\* Active only by Quit or by NextPage without a further page (the other
\* exit is the live total reaching 0 at the top of the loop).
C8_OnlyNormalExits ==
    [][ (pc = "prompt" /\ choice'.kind \in {"N", "Q", "number", "other"})
        => \/ pc' = "loop"
           \/ pc' = "done" /\ choice'.kind = "Q"
           \/ /\ pc' = "done" /\ choice'.kind = "N"
              /\ skip + NUM_FILES_SHOWN >= Len(files) ]_vars

\* C9: the total the scan returns is the sum of the sizes of the regular
\* files met; directories and other entries add nothing.
C9_TotalCountsRegularFilesOnly ==
    InSession => scan_total = regular_sum

\* C10: the scan fails exactly when the root cannot be opened (and then
\* no session starts); an unreadable entry below the root is skipped.
C10_ScanFailsOnlyOnRoot ==
    /\ pc = "scan_failed" => root_failed
    /\ root_failed => ~InSession

C12_SortedAndStable ==
    [][ /\ InSession' =>
            /\ \A i \in 1..(Len(files') - 1) :
                  files'[i].size >= files'[i + 1].size
            /\ scan_total' >= SumOver(files', 1..Len(files'))
        /\ InSession => files' = files ]_vars

\* C12 witness: a session over at least three candidates of different
\* sizes and a total above their sum, after a deletion.
C12_SessionOverRankedFiles ==
    /\ InSession /\ removed # {}
    /\ Len(files) >= 3
    /\ files[1].size > files[Len(files)].size
    /\ scan_total > SumOver(files, 1..Len(files))

\* C13: while the session prompts (Active, live total > 0) every slice has
\* 0 <= size <= live total, the per-file sizes sum to at most the live
\* total (the Other size is not negative), and no slot that can still be
\* deleted is larger than the live total: neither subtraction underflows.
C13_NoUnderflow ==
    pc = "prompt" =>
        /\ total_size > 0
        /\ \A i \in DOMAIN data :
              /\ data[i].total = total_size
              /\ 0 <= data[i].size /\ data[i].size <= total_size
        /\ \A n \in 1..NUM_FILES_SHOWN :
              (skip + n <= Len(files) /\ ~deleted[n - 1])
              => files[skip + n].size <= total_size

\* C13 witness: after a deletion the files still shown add up to the whole
\* live total, so the Other slice is exactly 0.
C13_OtherIsZero ==
    /\ pc = "prompt" /\ removed # {}
    /\ Len(data) >= 2
    /\ data[Len(data)].size = 0

\* C14: the chart data is the unmarked candidates of the current page in
\* page order (largest first), followed by exactly one Other slice, last,
\* whose size is the current live total minus the sizes of the slices
\* before it; when every slot of the page is marked it is the Other slice
\* alone, with the whole live total.
C14_BuilderOutput ==
    data # <<>> =>
        LET n     == Len(data)
            shown == {i \in 0..(NUM_FILES_SHOWN - 1) :
                         skip + i < Len(files) /\ ~deleted[i]}
        IN  /\ n = Cardinality(shown) + 1
            /\ data[n].slot = 0
            /\ \A k \in 1..(n - 1) :
                  /\ data[k].slot - 1 \in shown
                  /\ data[k].size = files[skip + data[k].slot].size
            /\ \A k \in 1..(n - 2) :
                  /\ data[k].slot < data[k + 1].slot
                  /\ data[k].size >= data[k + 1].size
            /\ data[n].total = total_size
            /\ data[n].size = total_size
                   - SumOver(files, {skip + i + 1 : i \in shown})
            /\ shown = {} => data[1].size = total_size

\* C14 witness: a page with candidates, all of them deleted, is rendered
\* as the Other slice alone, against a live total below the scan total.
C14_OnlyOtherLeft ==
    /\ pc = "prompt" /\ Len(files) > skip
    /\ Len(data) = 1
    /\ total_size < scan_total

\* C15: every per-file slice carries the number of its position within the
\* page (index - offset + 1), whatever other slots are marked; no marked
\* slot's number is shown; and a Delete(n) that removes a file removes the
\* candidate at index offset + n - 1.
C15_StableSlotNumbers ==
    [][ /\ \A k \in 1..(Len(data') - 1) :
              /\ data'[k].slot = data'[k].file - skip'
              /\ ~deleted'[data'[k].slot - 1]
              /\ data'[k].size = files'[data'[k].file].size
        /\ (Handled("number") /\ outcome' = "deleted")
              => /\ removed' = removed \cup {skip + choice'.n}
                 /\ total_size' = total_size - files[skip + choice'.n].size
      ]_vars

\* C15 witness: slot 2 of the page is deleted and the next candidate is
\* still rendered as slot 3, now as the second slice.
C15_ThirdKeepsItsNumber ==
    /\ pc = "prompt" /\ deleted[1] /\ ~deleted[0]
    /\ Len(data) >= 3
    /\ data[2].slot = 3 /\ data[2].file = skip + 3

\* C16: a session step clears the mask exactly when it moves the offset to
\* a new page; a step that keeps the offset never unmarks a marked slot.
C16_MaskClearedOnlyOnAdvance ==
    [][ (InSession /\ InSession')
        => /\ skip' # skip => deleted' = NoneDeleted
           /\ skip' = skip =>
                 \A i \in DOMAIN deleted : deleted[i] => deleted'[i]
           /\ (deleted # NoneDeleted /\ deleted' = NoneDeleted)
                 => skip' = skip + NUM_FILES_SHOWN ]_vars

\* C16 witness: NextPage has just moved to the second page with a clean
\* mask, after a deletion on the first page.
C16_ClearedAfterAdvance ==
    /\ pc = "loop" /\ choice.kind = "N" /\ skip = NUM_FILES_SHOWN
    /\ \E i \in removed : i <= NUM_FILES_SHOWN
    /\ deleted = NoneDeleted

\* C17: Delete(n) for a slot already marked on the current page prints the
\* invalid-choice diagnostic, does not reach the confirmation prompt, and
\* leaves offset, mask and live total unchanged with the session Active.
C17_DeletedSlotRejected ==
    [][ (/\ Handled("number")
         /\ choice'.n \in 1..NUM_FILES_SHOWN
         /\ deleted[choice'.n - 1])
        => /\ diag' = "Invalid choice"
           /\ outcome' = "none"
           /\ removed' = removed
           /\ skip' = skip /\ deleted' = deleted
           /\ total_size' = total_size
           /\ pc' = "loop" /\ total_size' > 0 ]_vars

\* C17 witness: the operator has just named a slot that is marked, and
\* was told it is an invalid choice.
C17_MarkedSlotNamed ==
    /\ pc = "loop" /\ choice.kind = "number"
    /\ choice.n \in 1..NUM_FILES_SHOWN
    /\ deleted[choice.n - 1]
    /\ diag = "Invalid choice" /\ outcome = "none"

\* C18: to_readable_size returns for every u64, and the unit it names is
\* the one at index min(floor(log_1024(max(b, 1))), 4): from 1024^5 bytes
\* on the unit is TiB.
C18_UnitAlwaysInRange ==
    pc = "formatted" =>
        LET power == CHOOSE i \in 0..(U64Digits - 1) :
                        /\ \A j \in (i + 2)..U64Digits : bytes[j] = 0
                        /\ (i > 0 => bytes[i + 1] # 0)
            unit  == IF power < 4 THEN power ELSE 4
        IN  /\ readable.status = "ok"
            /\ readable.suffix = SIZE_CONVERT_SUFFIXES[unit + 1]

\* C19: no candidate is deleted twice.  The offset never decreases and is
\* a multiple of the page size; every removed candidate lies on an earlier
\* page or is marked on the current one; so the confirmation prompt is
\* never reached for a candidate that was already removed.
C19_DeletedAtMostOnce ==
    [][ /\ (InSession /\ InSession')
            => /\ skip' >= skip
               /\ skip' % NUM_FILES_SHOWN = 0
        /\ InSession'
            => \A i \in removed' :
                  /\ i <= skip' + NUM_FILES_SHOWN
                  /\ i > skip' => deleted'[i - skip' - 1]
        /\ (Handled("number") /\ outcome' # "none")
            => (skip + choice'.n) \notin removed ]_vars

\* C19 witness: a candidate of the second page has just been removed, and
\* one of the first page was removed before the page was turned.
C19_RemovedOnBothPages ==
    /\ pc = "loop" /\ outcome = "deleted"
    /\ skip = NUM_FILES_SHOWN
    /\ (skip + choice.n) \in removed
    /\ \E i \in removed : i <= NUM_FILES_SHOWN

\* C20: when the operator keeps asking for the next page, whatever other
\* commands come in between, every session reaches Done.
C20_NextPageReachesDone ==
    InSession ~> (pc = "done")
====
